---------------------------- MODULE Spec2Model ----------------------------
(***************************************************************************)
(* Model of the portfolio optimizer of src/src/pages/Optimize.tsx: the     *)
(* Optimize component's state, its handleOptimize handler, the timer       *)
(* callback that ranks, allocates and summarizes, and the input handlers.  *)
(* After it come the App of src/src/App-new.jsx, useStore with the         *)
(* OptimizeButton, the useWebSocket hook, the toast store with the Toast   *)
(* component, the auth store with ProtectedRoute and the trading store,    *)
(* each with variables and a specification of its own.                     *)
(*                                                                         *)
(* Numbers.  Money is in whole units, expected_return and risk in          *)
(* hundredths, riskTolerance in twentieths (the slider's step of 0.05).    *)
(* A JavaScript number is a record [kind, num, den]: an exact reduced      *)
(* fraction (kind "num"), or NaN, Infinity, -Infinity as IEEE-754 division *)
(* yields them.  On these integer inputs the doubles of the code are exact *)
(* for +, - and * of integers and for floor of a quotient; the one         *)
(* rounding that changes a result, maxShares * 0.7, is modelled by         *)
(* FloorMul07.  Fractions (efficiency, weight, the summary figures) are    *)
(* exact rationals where the code has the nearest double.                  *)
(***************************************************************************)
EXTENDS Integers, Sequences, FiniteSets, TLC

VARIABLES
    assets,             \* useState<Asset[]>: the catalog, in catalog order
    selectedAssets,     \* useState<string[]>: symbols in order of selection
    budget,             \* useState(50000)
    riskTolerance,      \* useState(0.6), in twentieths
    optimizationResult, \* useState<OptimizationResult | null>: <<>> is null, <<r>> the result r
    isOptimizing,       \* useState(false)
    timers,             \* pending setTimeout callbacks: the state each one's closure captured
    calls,              \* history: number of handleOptimize calls that scheduled a callback
    runs,               \* history: per finished callback, what it captured, saw and produced
    \* App of src/src/App-new.jsx
    App,                \* the component's useState cells, as a record
    fetches,            \* optimizePortfolio calls awaiting fetch: what each one's closure captured
    portfolioLog,       \* history: per settled optimizePortfolio call, the response and what the call did
    \* useStore of src/Makefile (lines 266-372) and OptimizeButton
    useStore,           \* the store's state, as a record
    optimizations,      \* startOptimization calls in progress: what each read by get() and its loop's i
    localOptimizing,    \* OptimizeButton: useState(false)
    \* useWebSocket of src/src/hooks/use-websocket.ts
    useWebSocket,       \* the hook's state cells and refs and its config, as a record
    sockets,            \* the WebSocket objects created, in order: readyState and who called connect
    reconnectTimers,    \* pending reconnect timeouts: the socket whose onclose set each
    \* useToastStore of src/src/stores/toast-store.ts and Toast of src/unnamed/part_007
    useToastStore,      \* the store's state, as a record
    generated,          \* the number of ids generateId has returned
    storeTimeouts,      \* pending timeouts of addToast: the id each will remove
    ToastComponents,    \* the mounted Toast components, by toast id: isVisible, isPaused, timeout pending
    closeTimeouts,      \* pending 300 ms timeouts of handleClose: the id, and what called handleClose
    \* useAuthStore of src/src/stores/toast-store.ts (lines 88-198)
    useAuthStore,       \* the store's state, as a record
    authRequests,       \* login and refreshAuth calls awaiting fetch
    \* useTradingStore of src/src/stores/toast-store.ts (lines 235-339)
    useTradingStore,    \* the store's state, as a record
    orderRequests,      \* submitOrder calls awaiting fetch: the order of each
    lastOrder           \* history: of the submitOrder call that returned last, the order, the
                        \* response, and positions before and after; <<>> before the first

\* The Optimize page of src/src/pages/Optimize.tsx.
optimizeVars == <<assets, selectedAssets, budget, riskTolerance, optimizationResult,
                  isOptimizing, timers, calls, runs>>

appVars == <<App, fetches, portfolioLog>>

storeVars == <<useStore, optimizations, localOptimizing>>

wsVars == <<useWebSocket, sockets, reconnectTimers>>

toastVars == <<useToastStore, generated, storeTimeouts, ToastComponents, closeTimeouts>>

authVars == <<useAuthStore, authRequests>>

tradingVars == <<useTradingStore, orderRequests, lastOrder>>

vars == <<optimizeVars, appVars, storeVars, wsVars, toastVars, authVars, tradingVars>>

\* What a step of one component or store leaves alone: the others.
exceptOptimize == <<appVars, storeVars, wsVars, toastVars, authVars, tradingVars>>

exceptApp == <<optimizeVars, storeVars, wsVars, toastVars, authVars, tradingVars>>

exceptStore == <<optimizeVars, appVars, wsVars, toastVars, authVars, tradingVars>>

exceptWs == <<optimizeVars, appVars, storeVars, toastVars, authVars, tradingVars>>

exceptToasts == <<optimizeVars, appVars, storeVars, wsVars, authVars, tradingVars>>

exceptAuth == <<optimizeVars, appVars, storeVars, wsVars, toastVars, tradingVars>>

exceptTrading == <<optimizeVars, appVars, storeVars, wsVars, toastVars, authVars>>

---------------------------------------------------------------------------
(* Bound of the model *)

\* Clicks on the Optimize Portfolio button, per behaviour.
MaxCalls == 2

\* startOptimization calls in progress at a time.
MaxRuns == 2

\* WebSocket objects created by useWebSocket, per behaviour.
MaxSockets == 4

\* Toasts added, per behaviour.
MaxToasts == 2

\* Requests of a store awaiting their response at a time.
MaxRequests == 2

---------------------------------------------------------------------------
(* JavaScript numbers *)

RECURSIVE GCD(_, _)
GCD(a, b) ==
    IF b = 0 THEN a ELSE GCD(b, a % b)

Abs(x) ==
    IF x < 0 THEN -x ELSE x

NaN ==
    [kind |-> "NaN", num |-> 0, den |-> 0]

PosInfinity ==
    [kind |-> "Infinity", num |-> 1, den |-> 0]

NegInfinity ==
    [kind |-> "-Infinity", num |-> -1, den |-> 0]

\* The fraction n/d (d # 0) in lowest terms with a positive denominator.
Rat(n, d) ==
    LET g == GCD(Abs(n), Abs(d))
        s == IF d < 0 THEN -1 ELSE 1
    IN  [kind |-> "num", num |-> s * (n \div g), den |-> s * (d \div g)]

Num(n) ==
    [kind |-> "num", num |-> n, den |-> 1]

IsFinite(x) ==
    x.kind = "num"

\* (n1/d1) * (n2/d2) in lowest terms, cancelling before multiplying.
MulFrac(n1, d1, n2, d2) ==
    LET g1 == GCD(Abs(n1), Abs(d2))
        g2 == GCD(Abs(n2), Abs(d1))
    IN  Rat((n1 \div g1) * (n2 \div g2), (d1 \div g2) * (d2 \div g1))

\* (n1/d1) + (n2/d2) in lowest terms, over the least common denominator.
AddFrac(n1, d1, n2, d2) ==
    LET g == GCD(d1, d2)
    IN  Rat(n1 * (d2 \div g) + n2 * (d1 \div g), (d1 \div g) * d2)

\* a / b of IEEE-754: x/0 is +-Infinity, 0/0 is NaN.
JsDiv(a, b) ==
    IF a.kind = "NaN" \/ b.kind = "NaN" THEN NaN
    ELSE IF ~IsFinite(a) /\ ~IsFinite(b) THEN NaN
    ELSE IF ~IsFinite(a) THEN
        (IF (a.num < 0) = (b.num < 0) THEN PosInfinity ELSE NegInfinity)
    ELSE IF ~IsFinite(b) THEN Num(0)
    ELSE IF b.num = 0 THEN
        (IF a.num = 0 THEN NaN
         ELSE IF a.num > 0 THEN PosInfinity ELSE NegInfinity)
    ELSE MulFrac(a.num, a.den, b.den, b.num)

\* a * b of IEEE-754.
JsMul(a, b) ==
    IF a.kind = "NaN" \/ b.kind = "NaN" THEN NaN
    ELSE IF IsFinite(a) /\ IsFinite(b) THEN MulFrac(a.num, a.den, b.num, b.den)
    ELSE IF a.num = 0 \/ b.num = 0 THEN NaN
    ELSE IF (a.num < 0) = (b.num < 0) THEN PosInfinity ELSE NegInfinity

\* a + b of IEEE-754.
JsAdd(a, b) ==
    IF a.kind = "NaN" \/ b.kind = "NaN" THEN NaN
    ELSE IF IsFinite(a) /\ IsFinite(b)
        THEN AddFrac(a.num, a.den, b.num, b.den)
    ELSE IF ~IsFinite(a) /\ ~IsFinite(b)
        THEN (IF a.kind = b.kind THEN a ELSE NaN)
    ELSE IF ~IsFinite(a) THEN a ELSE b

JsSub(a, b) ==
    JsAdd(a, JsMul(Num(-1), b))

\* The sign of a comparator's return value as Array.prototype.sort reads it:
\* NaN counts as 0.
Sign(x) ==
    IF x.kind = "NaN" \/ x.num = 0 THEN 0
    ELSE IF x.num > 0 THEN 1 ELSE -1

\* a <= b of IEEE-754: false when either side is NaN.
JsLeq(a, b) ==
    /\ a.kind # "NaN"
    /\ b.kind # "NaN"
    /\ \/ a = b
       \/ Sign(JsSub(b, a)) = 1

RECURSIVE Pow2Floor(_)
\* The largest power of two that is <= k (k >= 1).
Pow2Floor(k) ==
    IF k < 2 THEN 1 ELSE 2 * Pow2Floor(k \div 2)

\* Math.floor(maxShares * 0.7) in double arithmetic.  The double 0.7 is
\* 0.7 - 0.4 * 2^-53, so the product of an integer m lies 0.4 * m * 2^-53
\* below 7m/10.  When 7m/10 is an integer k, the product rounds to k only if
\* that deficit is at most half the spacing 2^(e-52) of the doubles below k
\* (2^e <= k < 2^(e+1)), that is if 2m <= 5 * 2^e; otherwise it rounds to
\* the double below k and the floor is k - 1 (90 * 0.7 is 62.99999999999999).
FloorMul07(m) ==
    LET k == (7 * m) \div 10
    IN  IF m > 0 /\ m % 10 = 0 /\ 2 * m > 5 * Pow2Floor(k) THEN k - 1 ELSE k

Max(a, b) ==
    IF a >= b THEN a ELSE b

\* Math.floor(a / b) on integers, b # 0: the quotient rounded down.
FloorDiv(a, b) ==
    IF b > 0 THEN a \div b ELSE (-a) \div (-b)

---------------------------------------------------------------------------
(* Inputs.  The component fills assets from mockAssets, data standing in    *)
(* for a catalog service; the model draws assets from small catalogs of    *)
(* the same shape on whole-number prices, and budget and riskTolerance     *)
(* from what the two input elements can be set to.                         *)

Asset(symbol, price, expected_return, risk) ==
    [symbol |-> symbol, price |-> price,
     expected_return |-> expected_return, risk |-> risk]

\* The example of the specification's section 8, with an asset too dear for
\* the example's budget.
CatalogExample ==
    << Asset("AAPL", 200, 10, 20),
       Asset("MSFT", 300, 8, 15),
       Asset("BTC", 1200, 45, 65) >>

\* Two assets of equal efficiency, listed against their symbols' order, and
\* a third that ranks first at every risk tolerance.
CatalogTies ==
    << Asset("MSFT", 2, 10, 20),
       Asset("AAPL", 2, 10, 20),
       Asset("GOOGL", 7, 70, 20) >>

\* Assets of risk 0, one of them of return 0 too.
CatalogZeroRisk ==
    << Asset("BND", 1, 2, 0),
       Asset("USD", 1, 0, 0),
       Asset("TSLA", 3, 25, 35) >>

\* A catalog of two, for the behaviours in which the inputs are edited.
CatalogPair ==
    << Asset("TSLA", 3, 25, 35),
       Asset("BND", 1, 2, 0) >>

Catalogs ==
    {CatalogExample, CatalogTies, CatalogZeroRisk, CatalogPair}

\* Assets expected to lose: expected_return is any number.
CatalogLosses ==
    << Asset("TSLA", 2, -3, 50),
       Asset("BND", 4, -4, 10) >>

\* Assets of risk above 1: risk is any number >= 0.
CatalogHighRisk ==
    << Asset("BTC", 10, 20, 200),
       Asset("TSLA", 2, 10, 150) >>

\* A catalog with an asset of negative price: data that the Asset type
\* (price: number) admits and the specification's data model does not.
CatalogBadPrice ==
    << Asset("AAPL", 200, 10, 20),
       Asset("TSLA", -5, 25, 35) >>

\* <input type="number"> with no min: any number, negative ones included.
Budgets ==
    {-1, 0, 1, 5, 90, 1000, 2000}

\* <input type="range" min="0" max="1" step="0.05">, in twentieths.
RiskTolerances ==
    {0, 10, 20}

\* The values the budget input is set to by the edits.
BudgetEdits ==
    {5, 90}

\* The values the budget input steps through where results at different
\* budgets are compared.
BudgetSteps ==
    {5, 500, 600, 1000}

\* The positions the slider is moved to by the edits.
RiskToleranceEdits ==
    {0, 20}

Symbols(catalog) ==
    {catalog[i].symbol : i \in 1..Len(catalog)}

Includes(seq, x) ==
    \E i \in 1..Len(seq) : seq[i] = x

\* The sequences of distinct symbols of a catalog: what toggling can build.
Selections(catalog) ==
    {s \in UNION {[1..n -> Symbols(catalog)] : n \in 0..Len(catalog)} :
        \A i, j \in 1..Len(s) : i # j => s[i] # s[j]}

\* The values of selectedAssets as a string[]: up to two distinct symbols, of
\* the catalog or not ("DOGE" is in no catalog).
AnySelections(catalog) ==
    {s \in UNION {[1..n -> Symbols(catalog) \cup {"DOGE"}] : n \in 0..2} :
        \A i, j \in 1..Len(s) : i # j => s[i] # s[j]}

\* The values of riskTolerance as a number, in twentieths: -0.5, 0.5, 1.5.
AnyRiskTolerances ==
    {-10, 10, 30}

---------------------------------------------------------------------------
(* The timer callback of handleOptimize: rank, allocate, summarize.  A      *)
(* closure c holds the state the callback's closure captured.              *)

\* assets.filter(asset => selectedAssets.includes(asset.symbol))
selectedAssetData(c) ==
    LET Test(asset) == Includes(c.selectedAssets, asset.symbol)
    IN  SelectSeq(c.assets, Test)

\* Mutant: the risk weighed by riskTolerance, not by 1 - riskTolerance.
EfficiencyRiskByTolerance(asset, rt) ==
    LET er == Rat(asset.expected_return, 100)
        rk == Rat(asset.risk, 100)
        tol == Rat(rt, 20)
    IN  JsDiv(JsMul(er, JsSub(Num(1), JsMul(rk, tol))), Num(asset.price))

\* (asset.expected_return * (1 - asset.risk * (1 - riskTolerance))) / asset.price
Efficiency(asset, rt) ==
    LET er == Rat(asset.expected_return, 100)
        rk == Rat(asset.risk, 100)
        tol == Rat(rt, 20)
    IN  JsDiv(JsMul(er, JsSub(Num(1), JsMul(rk, JsSub(Num(1), tol)))),
              Num(asset.price))

\* { ...asset, efficiency }
WithEfficiency(asset, rt) ==
    [symbol |-> asset.symbol, price |-> asset.price,
     expected_return |-> asset.expected_return, risk |-> asset.risk,
     efficiency |-> Efficiency(asset, rt)]

\* Mutant: (a, b) => a.efficiency - b.efficiency.
CompareAscending(a, b) ==
    Sign(JsSub(a.efficiency, b.efficiency))

\* The comparator (a, b) => b.efficiency - a.efficiency, as sort reads it.
Compare(a, b) ==
    Sign(JsSub(b.efficiency, a.efficiency))

RECURSIVE Insert(_, _)
\* x placed behind every element that does not have to follow it.
Insert(x, sorted) ==
    IF sorted = <<>> THEN <<x>>
    ELSE IF Compare(Head(sorted), x) <= 0
        THEN <<Head(sorted)>> \o Insert(x, Tail(sorted))
        ELSE <<x>> \o sorted

RECURSIVE Sort(_)
\* Array.prototype.sort with the comparator: a stable sort (ECMAScript 2019),
\* here a stable insertion sort taking the elements in their given order.
Sort(seq) ==
    IF seq = <<>> THEN <<>>
    ELSE Insert(seq[Len(seq)], Sort(SubSeq(seq, 1, Len(seq) - 1)))

\* selectedAssetData.map(...).sort(...)
optimizedAssets(c) ==
    LET data == selectedAssetData(c)
    IN  Sort([i \in 1..Len(data) |-> WithEfficiency(data[i], c.riskTolerance)])

\* allocation[key] = value on a Record<string, number>, a set of entries.
SetEntry(allocation, key, value) ==
    {e \in allocation : e.key # key} \cup {[key |-> key, value |-> value]}

RECURSIVE SumValues(_)
\* Object.values(allocation).reduce((sum, val) => sum + val, 0)
SumValues(allocation) ==
    IF allocation = {} THEN 0
    ELSE LET e == CHOOSE x \in allocation : TRUE
         IN  e.value + SumValues(allocation \ {e})

\* Mutant: every affordable share is bought.
SharesAll(maxShares) ==
    Max(1, maxShares)

\* Math.max(1, Math.floor(maxShares * 0.7))
Shares(maxShares) ==
    Max(1, FloorMul07(maxShares))

\* Mutant: the price tested against the whole budget.
AffordableOfBudget(price, remainingBudget, budget0) ==
    price <= budget0

\* Mutant: < for <=.
AffordableStrict(price, remainingBudget, budget0) ==
    price < remainingBudget

\* Mutant: the test dropped.
AffordableAlways(price, remainingBudget, budget0) ==
    TRUE

\* Mutant: the comparison turned round.
AffordableFlipped(price, remainingBudget, budget0) ==
    price >= remainingBudget

\* if (asset.price <= remainingBudget)
Affordable(price, remainingBudget, budget0) ==
    price <= remainingBudget

\* One iteration of  for (const asset of optimizedAssets) { ... }  on the
\* loop state st; trace records what the iteration saw and did.
LoopBody(st, asset, budget0) ==
    IF Affordable(asset.price, st.remainingBudget, budget0)
    THEN LET maxShares == FloorDiv(st.remainingBudget, asset.price)
             shares == Shares(maxShares)
             investment == shares * asset.price
         IN  [remainingBudget |-> st.remainingBudget - investment,
              selectedForPortfolio |-> Append(st.selectedForPortfolio,
                  [symbol |-> asset.symbol, price |-> asset.price,
                   expected_return |-> asset.expected_return,
                   risk |-> asset.risk, efficiency |-> asset.efficiency,
                   shares |-> shares, investment |-> investment,
                   weight |-> JsDiv(Num(investment), Num(budget0))]),
              allocation |-> SetEntry(st.allocation, asset.symbol, investment),
              trace |-> Append(st.trace,
                  [symbol |-> asset.symbol, price |-> asset.price,
                   remainingBefore |-> st.remainingBudget, bought |-> TRUE,
                   maxShares |-> maxShares, shares |-> shares,
                   investment |-> investment])]
    ELSE [remainingBudget |-> st.remainingBudget,
          selectedForPortfolio |-> st.selectedForPortfolio,
          allocation |-> st.allocation,
          trace |-> Append(st.trace,
              [symbol |-> asset.symbol, price |-> asset.price,
               remainingBefore |-> st.remainingBudget, bought |-> FALSE,
               maxShares |-> 0, shares |-> 0, investment |-> 0])]

RECURSIVE Loop(_, _, _, _)
\* The for loop from its i-th iteration on.
Loop(st, ranked, i, budget0) ==
    IF i > Len(ranked) THEN st
    ELSE Loop(LoopBody(st, ranked[i], budget0), ranked, i + 1, budget0)

\* let remainingBudget = budget; const selectedForPortfolio = []; allocation = {}; for ...
Allocate(ranked, budget0) ==
    Loop([remainingBudget |-> budget0, selectedForPortfolio |-> <<>>,
          allocation |-> {}, trace |-> <<>>], ranked, 1, budget0)

RECURSIVE WeightedSum(_, _)
\* selectedForPortfolio.reduce((sum, asset) => sum + (asset[field] * asset.weight), 0),
\* field in hundredths
WeightedSum(holdings, field) ==
    IF holdings = <<>> THEN Num(0)
    ELSE LET n == Len(holdings)
             h == holdings[n]
         IN  JsAdd(WeightedSum(SubSeq(holdings, 1, n - 1), field),
                   JsMul(Rat(h[field], 100), h.weight))

\* Mutant: the quotient turned over.
DiversificationScoreInverted(holdings, selected) ==
    JsDiv(Num(Len(selected)), Num(Len(holdings)))

\* selectedForPortfolio.length / selectedAssets.length
DiversificationScore(holdings, selected) ==
    JsDiv(Num(Len(holdings)), Num(Len(selected)))

\* The OptimizationResult the callback builds.
Result(c) ==
    LET st == Allocate(optimizedAssets(c), c.budget)
        expectedReturn == WeightedSum(st.selectedForPortfolio, "expected_return")
        totalRisk == WeightedSum(st.selectedForPortfolio, "risk")
    IN  [selected_assets |-> st.selectedForPortfolio,
         total_value |-> SumValues(st.allocation),
         expected_return |-> expectedReturn,
         total_risk |-> totalRisk,
         allocation |-> st.allocation,
         sharpe_ratio |-> JsDiv(expectedReturn, totalRisk),
         diversification_score |->
             DiversificationScore(st.selectedForPortfolio, c.selectedAssets)]

---------------------------------------------------------------------------
(* The component *)

Null ==
    <<>>

\* The state a handler created in the current render closes over.  assets is
\* set once, by the mount effect, and is read from the state.
Closure ==
    [selectedAssets |-> selectedAssets, budget |-> budget,
     riskTolerance |-> riskTolerance]

\* Mutant: the callback reads the state as it is when the timer fires.
CapturedLive(closure) ==
    Closure

\* The state the callback of a handleOptimize call reads: the closure's.
Captured(closure) ==
    closure

\* The callback's view of closure c.
Request(c) ==
    [assets |-> assets, selectedAssets |-> c.selectedAssets,
     budget |-> c.budget, riskTolerance |-> c.riskTolerance]

\* App of App-new.jsx as mounted: the useState initial values (lines 8-15).
AppInit ==
    /\ App = [selected |-> <<"AAPL", "MSFT">>, query |-> "", budget |-> 10000,
              optimizedPortfolio |-> Null, results |-> <<>>,
              isOptimizing |-> FALSE]
    /\ fetches = <<>>
    /\ portfolioLog = <<>>

\* The Optimize page as mounted, with the useState initial values (lines
\* 51-57) and a catalog of two, in the behaviours of the other components.
OptimizeInit ==
    /\ assets = CatalogPair
    /\ selectedAssets = <<>>
    /\ budget = 50000
    /\ riskTolerance = 12
    /\ optimizationResult = Null
    /\ isOptimizing = FALSE
    /\ timers = <<>>
    /\ calls = 0
    /\ runs = <<>>

\* useStore as created (lines 268, 278, 281, 311-313) and OptimizeButton as
\* mounted.
StoreInit ==
    /\ useStore = [selectedStocks |-> <<>>, budget |-> 10000, riskLevel |-> "medium",
                   optimizationState |-> "idle", optimizationProgress |-> 0,
                   optimizationResults |-> <<>>]
    /\ optimizations = <<>>
    /\ localOptimizing = FALSE

\* useWebSocket after its first render and effect (lines 12-19, 87-88):
\* connect() has created the first WebSocket, which is connecting.  A socket
\* is named by its place in sockets, and 0 stands for the null of wsRef and
\* the undefined of reconnectTimeoutRef; error is <<>> for null, <<e>> for e.
WsInit(maxReconnectAttempts) ==
    /\ useWebSocket = [isConnected |-> FALSE, error |-> <<>>, wsRef |-> 1,
                       reconnectAttemptsRef |-> 0, reconnectTimeoutRef |-> 0,
                       maxReconnectAttempts |-> maxReconnectAttempts,
                       mounted |-> TRUE]
    /\ sockets = <<[readyState |-> "CONNECTING", by |-> "effect"]>>
    /\ reconnectTimers = {}

\* useToastStore as created (line 24), with no toast shown.
ToastsInit ==
    /\ useToastStore = [toasts |-> <<>>]
    /\ generated = 0
    /\ storeTimeouts = {}
    /\ ToastComponents = <<>>
    /\ closeTimeouts = {}

\* useAuthStore as created (lines 91-96), with nothing persisted.
AuthInit ==
    /\ useAuthStore = [user |-> Null, token |-> Null, refreshToken |-> Null,
                       isAuthenticated |-> FALSE, isLoading |-> FALSE,
                       error |-> Null]
    /\ authRequests = <<>>

\* useTradingStore as created (lines 237-243).
TradingInit ==
    /\ useTradingStore = [positions |-> <<>>, metrics |-> <<>>, equityData |-> <<>>,
                          events |-> <<>>, isLoadingPositions |-> FALSE,
                          isLoadingMetrics |-> FALSE, isLoadingEquity |-> FALSE]
    /\ orderRequests = <<>>
    /\ lastOrder = <<>>

\* The other components and stores, as constructed, in the behaviours of the
\* Optimize page.
OutsideOptimizeInit ==
    /\ AppInit
    /\ StoreInit
    /\ WsInit(5)
    /\ ToastsInit
    /\ AuthInit
    /\ TradingInit

\* Every component as mounted and every store as created.
InitMounted ==
    /\ OptimizeInit
    /\ OutsideOptimizeInit

\* The state after the mount effect setAssets(mockAssets), with the inputs
\* drawn from the bounded sets.
Init ==
    /\ assets \in Catalogs
    /\ selectedAssets \in Selections(assets)
    /\ budget \in Budgets
    /\ riskTolerance \in RiskTolerances
    /\ optimizationResult = Null
    /\ isOptimizing = FALSE
    /\ timers = <<>>
    /\ calls = 0
    /\ runs = <<>>
    /\ OutsideOptimizeInit

\* The component in states of its declared types (Asset[], string[], number)
\* that the page's own controls do not lead to: the slider keeps
\* riskTolerance in [0,1], the cards offer the catalog's symbols only, and
\* mockAssets has positive prices.  What handleOptimize and its callback do
\* in them is what the code does with a request that needs validating.
InitAny ==
    /\ assets \in {CatalogExample, CatalogBadPrice}
    /\ selectedAssets \in AnySelections(assets)
    /\ budget \in {5, 1000}
    /\ riskTolerance \in AnyRiskTolerances
    /\ optimizationResult = Null
    /\ isOptimizing = FALSE
    /\ timers = <<>>
    /\ calls = 0
    /\ runs = <<>>
    /\ OutsideOptimizeInit

\* A selection made on any catalog, with the budget at one of its steps.
InitBudgets ==
    /\ assets \in Catalogs
    /\ selectedAssets \in Selections(assets)
    /\ budget \in BudgetSteps
    /\ riskTolerance \in RiskTolerances
    /\ optimizationResult = Null
    /\ isOptimizing = FALSE
    /\ timers = <<>>
    /\ calls = 0
    /\ runs = <<>>
    /\ OutsideOptimizeInit

\* A selection made on any catalog, with the slider at one of its positions.
InitRiskTolerances ==
    /\ assets \in Catalogs \cup {CatalogLosses, CatalogHighRisk}
    /\ selectedAssets \in Selections(assets)
    /\ budget \in {5, 1000}
    /\ riskTolerance \in RiskTolerances
    /\ optimizationResult = Null
    /\ isOptimizing = FALSE
    /\ timers = <<>>
    /\ calls = 0
    /\ runs = <<>>
    /\ OutsideOptimizeInit

\* The component as mounted: nothing selected yet.
InitUI ==
    /\ assets = CatalogPair
    /\ selectedAssets = <<>>
    /\ budget \in BudgetEdits
    /\ riskTolerance \in RiskToleranceEdits
    /\ optimizationResult = Null
    /\ isOptimizing = FALSE
    /\ timers = <<>>
    /\ calls = 0
    /\ runs = <<>>
    /\ OutsideOptimizeInit

\* Mutant: the button enabled, and the handler going on, with nothing selected.
HandleOptimizeAnySelection ==
    /\ ~isOptimizing
    /\ calls < MaxCalls
    /\ isOptimizing' = TRUE
    /\ timers' = Append(timers, Closure)
    /\ calls' = calls + 1
    /\ UNCHANGED <<assets, selectedAssets, budget, riskTolerance,
                   optimizationResult, runs>>
    /\ UNCHANGED exceptOptimize

\* A click on the Optimize Portfolio button, which is disabled while
\* isOptimizing or with nothing selected (so the handler's early return on
\* an empty selection, with its alert, is never taken):
\* setIsOptimizing(true); setTimeout(callback, 2000).
HandleOptimize ==
    /\ ~(isOptimizing \/ Len(selectedAssets) = 0)
    /\ calls < MaxCalls
    /\ isOptimizing' = TRUE
    /\ timers' = Append(timers, Closure)
    /\ calls' = calls + 1
    /\ UNCHANGED <<assets, selectedAssets, budget, riskTolerance,
                   optimizationResult, runs>>
    /\ UNCHANGED exceptOptimize

\* The earliest pending timer fires: its callback runs to completion.
TimerCallback ==
    /\ timers # <<>>
    /\ LET c == Request(Captured(Head(timers)))
           ranked == optimizedAssets(c)
           st == Allocate(ranked, c.budget)
           result == Result(c)
       IN  /\ optimizationResult' = <<result>>
           /\ runs' = Append(runs,
                  [call |-> Head(timers), request |-> c,
                   ranked |-> ranked, trace |-> st.trace, result |-> result])
    /\ isOptimizing' = FALSE
    /\ timers' = Tail(timers)
    /\ UNCHANGED <<assets, selectedAssets, budget, riskTolerance, calls>>
    /\ UNCHANGED exceptOptimize

\* prev.includes(symbol) ? prev.filter(s => s !== symbol) : [...prev, symbol]
Toggle(prev, symbol) ==
    IF Includes(prev, symbol)
    THEN LET Keep(s) == s # symbol IN SelectSeq(prev, Keep)
    ELSE Append(prev, symbol)

\* A click on an asset card.
toggleAssetSelection ==
    /\ \E symbol \in Symbols(assets) :
          selectedAssets' = Toggle(selectedAssets, symbol)
    /\ UNCHANGED <<assets, budget, riskTolerance, optimizationResult,
                   isOptimizing, timers, calls, runs>>
    /\ UNCHANGED exceptOptimize

\* onChange of the budget input: setBudget(Number(e.target.value)).
setBudget ==
    /\ \E b \in BudgetEdits : budget' = b
    /\ UNCHANGED <<assets, selectedAssets, riskTolerance, optimizationResult,
                   isOptimizing, timers, calls, runs>>
    /\ UNCHANGED exceptOptimize

\* onChange of the slider: setRiskTolerance(Number(e.target.value)).
setRiskTolerance ==
    /\ \E r \in RiskToleranceEdits : riskTolerance' = r
    /\ UNCHANGED <<assets, selectedAssets, budget, optimizationResult,
                   isOptimizing, timers, calls, runs>>
    /\ UNCHANGED exceptOptimize

\* onChange of the budget input, to one of BudgetSteps.
setBudgetStep ==
    /\ \E b \in BudgetSteps : budget' = b
    /\ UNCHANGED <<assets, selectedAssets, riskTolerance, optimizationResult,
                   isOptimizing, timers, calls, runs>>
    /\ UNCHANGED exceptOptimize

\* onChange of the slider, to one of RiskTolerances.
setRiskToleranceStep ==
    /\ \E r \in RiskTolerances : riskTolerance' = r
    /\ UNCHANGED <<assets, selectedAssets, budget, optimizationResult,
                   isOptimizing, timers, calls, runs>>
    /\ UNCHANGED exceptOptimize

\* The optimizer on each request: the inputs stay as drawn.
Next ==
    \/ HandleOptimize
    \/ TimerCallback

Spec ==
    Init /\ [][Next]_vars

\* The optimizer called on one selection at several budgets.
NextBudgets ==
    \/ HandleOptimize
    \/ TimerCallback
    \/ setBudgetStep

SpecBudgets ==
    InitBudgets /\ [][NextBudgets]_vars

\* The optimizer called on one selection at several risk tolerances.
NextRiskTolerances ==
    \/ HandleOptimize
    \/ TimerCallback
    \/ setRiskToleranceStep

SpecRiskTolerances ==
    InitRiskTolerances /\ [][NextRiskTolerances]_vars

\* The optimizer on requests that need validating.
SpecAny ==
    InitAny /\ [][Next]_vars

\* The component with its inputs edited between the clicks and while a
\* callback is pending.
NextUI ==
    \/ HandleOptimize
    \/ TimerCallback
    \/ toggleAssetSelection
    \/ setBudget
    \/ setRiskTolerance

SpecUI ==
    InitUI /\ [][NextUI]_vars

---------------------------------------------------------------------------
(* Properties *)

Holdings(run) ==
    run.result.selected_assets

\* The candidate assets of a run's request, in catalog order.
Candidates(run) ==
    selectedAssetData(run.request)

\* A run on a request of the data model: budget > 0 (every catalog asset has
\* price > 0 and risk >= 0, and the slider keeps riskTolerance in [0,1]).
Valid(run) ==
    run.request.budget > 0

SymbolsOf(seq) ==
    [i \in 1..Len(seq) |-> seq[i].symbol]

\* The model's symbols in ascending lexical order, as JavaScript compares strings.
SymbolOrder ==
    <<"AAPL", "BND", "BTC", "GOOGL", "MSFT", "TSLA", "USD">>

LexLess(a, b) ==
    \E i, j \in 1..Len(SymbolOrder) :
        SymbolOrder[i] = a /\ SymbolOrder[j] = b /\ i < j

RECURSIVE SumWeights(_)
SumWeights(holdings) ==
    IF holdings = <<>> THEN Num(0)
    ELSE JsAdd(SumWeights(Tail(holdings)), Head(holdings).weight)

\* C1 as stated: for every request, whatever its budget, the result's
\* total_value is at most the request's budget.
C1_TotalWithinAnyBudget ==
    \A k \in 1..Len(runs) :
        runs[k].result.total_value <= runs[k].request.budget

\* C1 amended: for every request with a budget >= 0, the result's
\* total_value (the sum of the holdings' investments) is at most the budget.
C1_TotalWithinBudget ==
    \A k \in 1..Len(runs) :
        runs[k].request.budget >= 0 =>
            runs[k].result.total_value <= runs[k].request.budget

C1_Witness ==
    \E k \in 1..Len(runs) :
        /\ runs[k].request.budget > 0
        /\ Len(Holdings(runs[k])) >= 2
        /\ runs[k].result.total_value > 0

\* C2: in every result of a valid request with at least one holding each
\* holding's weight is investment / total_value, and the weights sum to 1.
C2_WeightsOfTotalInvested ==
    \A k \in 1..Len(runs) :
        (Valid(runs[k]) /\ Holdings(runs[k]) # <<>>) =>
            /\ \A i \in 1..Len(Holdings(runs[k])) :
                  Holdings(runs[k])[i].weight =
                      JsDiv(Num(Holdings(runs[k])[i].investment),
                            Num(runs[k].result.total_value))
            /\ SumWeights(Holdings(runs[k])) = Num(1)

\* C3: an asset considered with price <= remainingBudget is bought in
\* max(1, floor(0.7 * floor(remainingBudget / price))) shares, for
\* investment = shares * price.
C3_SeventyPercentOfMaxShares ==
    \A k \in 1..Len(runs) :
        \A i \in 1..Len(runs[k].trace) :
            LET t == runs[k].trace[i]
            IN  (Valid(runs[k]) /\ t.price <= t.remainingBefore) =>
                    /\ t.bought
                    /\ t.shares = Max(1, (7 * (t.remainingBefore \div t.price)) \div 10)
                    /\ t.investment = t.shares * t.price

\* C4: the loop considers each ranked asset exactly once, in ranking order;
\* an asset becomes a holding iff its price <= the budget remaining when it
\* is considered, the remaining budget falling by each investment; so the
\* holdings are the bought assets in ranking order, no symbol twice.
C4_SingleForwardPass ==
    \A k \in 1..Len(runs) :
        LET tr == runs[k].trace
            rk == runs[k].ranked
            bought == LET Bought(t) == t.bought IN SelectSeq(tr, Bought)
        IN  /\ SymbolsOf(tr) = SymbolsOf(rk)
            /\ \A i, j \in 1..Len(rk) : i # j => rk[i].symbol # rk[j].symbol
            /\ {rk[i].symbol : i \in 1..Len(rk)}
                  = {s \in Symbols(runs[k].request.assets) :
                        Includes(runs[k].request.selectedAssets, s)}
            /\ \A i \in 1..Len(tr) :
                  /\ tr[i].bought <=> tr[i].price <= tr[i].remainingBefore
                  /\ tr[i].remainingBefore =
                        IF i = 1 THEN runs[k].request.budget
                        ELSE tr[i - 1].remainingBefore - tr[i - 1].investment
            /\ SymbolsOf(Holdings(runs[k])) = SymbolsOf(bought)
            /\ \A i \in 1..Len(bought) :
                  Holdings(runs[k])[i].investment = bought[i].investment

C4_Witness ==
    \E k \in 1..Len(runs) :
        \E i, j \in 1..Len(runs[k].trace) :
            /\ i < j
            /\ ~runs[k].trace[i].bought
            /\ runs[k].trace[j].bought
            /\ runs[k].trace[i].price <= runs[k].request.budget

\* C5: each ranked asset's efficiency is
\* expected_return * (1 - risk * (1 - riskTolerance)) / price, and the
\* ranked sequence is in descending order of it.
C5_RankedByEfficiency ==
    \A k \in 1..Len(runs) :
        LET rk == runs[k].ranked
            rt == runs[k].request.riskTolerance
        IN  /\ \A i \in 1..Len(rk) :
                  rk[i].efficiency =
                      Rat(rk[i].expected_return * (2000 - rk[i].risk * (20 - rt)),
                          200000 * rk[i].price)
            /\ \A i \in 1..Len(rk) - 1 :
                  JsLeq(rk[i + 1].efficiency, rk[i].efficiency)

C5_Witness ==
    \E k \in 1..Len(runs) :
        /\ Len(runs[k].ranked) = 3
        /\ SymbolsOf(runs[k].ranked) # SymbolsOf(Candidates(runs[k]))
        /\ runs[k].ranked[1].efficiency # runs[k].ranked[2].efficiency
        /\ runs[k].ranked[2].efficiency # runs[k].ranked[3].efficiency

C8_NothingAffordable ==
    /\ calls = Len(timers) + Len(runs)
    /\ runs # <<>> => optimizationResult = <<runs[Len(runs)].result>>
    /\ \A k \in 1..Len(runs) :
          (\A i \in 1..Len(Candidates(runs[k])) :
                runs[k].request.budget < Candidates(runs[k])[i].price)
              => /\ Holdings(runs[k]) = <<>>
                 /\ runs[k].result.total_value = 0

C8_Witness ==
    /\ runs # <<>>
    /\ timers = <<>>
    /\ ~isOptimizing
    /\ runs[Len(runs)].request.budget > 0
    /\ Len(Candidates(runs[Len(runs)])) >= 2
    /\ \A i \in 1..Len(Candidates(runs[Len(runs)])) :
          runs[Len(runs)].request.budget < Candidates(runs[Len(runs)])[i].price
    /\ optimizationResult[1].selected_assets = <<>>

\* C9: a result with no holdings (of a valid request) has expected_return,
\* total_risk, sharpe_ratio and diversification_score all 0.
C9_EmptySummaryIsZero ==
    \A k \in 1..Len(runs) :
        (Valid(runs[k]) /\ Holdings(runs[k]) = <<>>) =>
            /\ runs[k].result.expected_return = Num(0)
            /\ runs[k].result.total_risk = Num(0)
            /\ runs[k].result.sharpe_ratio = Num(0)
            /\ runs[k].result.diversification_score = Num(0)

\* C10: in every result of a valid request sharpe_ratio is
\* expected_return / total_risk when total_risk > 0, and 0 otherwise.
C10_SharpeGuarded ==
    \A k \in 1..Len(runs) :
        Valid(runs[k]) =>
            runs[k].result.sharpe_ratio =
                IF Sign(runs[k].result.total_risk) = 1
                THEN JsDiv(runs[k].result.expected_return, runs[k].result.total_risk)
                ELSE Num(0)

\* The three checks of a request that the specification asks for.
RiskToleranceInRange(req) ==
    req.riskTolerance \in 0..20

PricesPositive(req) ==
    \A i \in 1..Len(req.assets) : req.assets[i].price > 0

SymbolsResolve(req) ==
    \A i \in 1..Len(req.selectedAssets) : req.selectedAssets[i] \in Symbols(req.assets)

C14_EmptySelectionRejected ==
    [][Len(selectedAssets) = 0 =>
          /\ calls' = calls
          /\ Len(timers') <= Len(timers)
          /\ timers = <<>> =>
                /\ isOptimizing' = isOptimizing
                /\ optimizationResult' = optimizationResult
                /\ runs' = runs]_vars

C14_Witness ==
    /\ Len(selectedAssets) = 0
    /\ timers = <<>>
    /\ optimizationResult # Null
    /\ calls < MaxCalls

\* The price of one share of the most expensive candidate of a run.
MaxPrice(run) ==
    LET c == Candidates(run)
    IN  CHOOSE p \in {c[i].price : i \in 1..Len(c)} :
            \A i \in 1..Len(c) : c[i].price <= p

\* Two runs on the same assets, selection and riskTolerance, the second at
\* the larger budget.
BudgetRaised(r1, r2) ==
    /\ r1.request.assets = r2.request.assets
    /\ r1.request.selectedAssets = r2.request.selectedAssets
    /\ r1.request.riskTolerance = r2.request.riskTolerance
    /\ r1.request.budget < r2.request.budget

\* C15 as stated: of two runs that differ in the budget only, the one at the
\* larger budget invests at least as much.
C15_BudgetMonotone ==
    \A i, j \in 1..Len(runs) :
        BudgetRaised(runs[i], runs[j])
            => runs[j].result.total_value >= runs[i].result.total_value

\* C15 as amended: with a single candidate asset, of two runs that differ in
\* the budget only the one at the larger budget invests at least as much.
C15_BudgetMonotoneSingle ==
    \A i, j \in 1..Len(runs) :
        (BudgetRaised(runs[i], runs[j]) /\ Len(Candidates(runs[i])) = 1)
            => runs[j].result.total_value >= runs[i].result.total_value

C15_Witness ==
    \E i, j \in 1..Len(runs) :
        /\ BudgetRaised(runs[i], runs[j])
        /\ Len(Candidates(runs[i])) = 1
        /\ runs[i].result.total_value > 0
        /\ runs[j].result.total_value > runs[i].result.total_value

\* C16: of two runs that differ in the budget only, the one at the larger
\* budget invests at least as much as the other less the price of one share
\* of the most expensive candidate.
C16_BudgetMonotoneWithinOneShare ==
    \A i, j \in 1..Len(runs) :
        BudgetRaised(runs[i], runs[j])
            => runs[j].result.total_value
                  >= runs[i].result.total_value - MaxPrice(runs[i])

C16_Witness ==
    \E i, j \in 1..Len(runs) :
        /\ BudgetRaised(runs[i], runs[j])
        /\ runs[j].result.total_value < runs[i].result.total_value

\* The request of the specification's worked example: AAPL (200, 0.10, 0.2)
\* and MSFT (300, 0.08, 0.15) selected, budget 1000, riskTolerance 0.5.
IsExample(run) ==
    /\ run.request.assets = CatalogExample
    /\ {run.request.selectedAssets[i] : i \in 1..Len(run.request.selectedAssets)}
          = {"AAPL", "MSFT"}
    /\ run.request.budget = 1000
    /\ run.request.riskTolerance = 10

\* C17: on the example AAPL is ranked before MSFT, 3 shares of AAPL are
\* bought for 600 leaving 400, then 1 share of MSFT for 300, 900 in total.
C17_WorkedExample ==
    \A k \in 1..Len(runs) :
        IsExample(runs[k]) =>
            /\ SymbolsOf(runs[k].ranked) = <<"AAPL", "MSFT">>
            /\ Len(runs[k].trace) = 2
            /\ runs[k].trace[1].maxShares = 5
            /\ runs[k].trace[1].shares = 3
            /\ runs[k].trace[1].investment = 600
            /\ runs[k].trace[2].remainingBefore = 400
            /\ runs[k].trace[2].shares = 1
            /\ runs[k].trace[2].investment = 300
            /\ SymbolsOf(Holdings(runs[k])) = <<"AAPL", "MSFT">>
            /\ runs[k].result.total_value = 900

C17_Witness ==
    \E k \in 1..Len(runs) :
        /\ IsExample(runs[k])
        /\ optimizationResult = <<runs[k].result>>
        /\ ~isOptimizing

\* Two runs on the same assets, selection and budget, the second at a
\* riskTolerance at least the first's.
RiskToleranceRaised(r1, r2) ==
    /\ r1.request.assets = r2.request.assets
    /\ r1.request.selectedAssets = r2.request.selectedAssets
    /\ r1.request.budget = r2.request.budget
    /\ r1.request.riskTolerance <= r2.request.riskTolerance

\* h has the higher risk and the higher expected return of the two.
HigherRiskAndReturn(h, l) ==
    /\ h.risk > l.risk
    /\ h.expected_return > l.expected_return

\* Symbol a comes before symbol b in the ranked sequence.
RankedAhead(ranked, a, b) ==
    \E i, j \in 1..Len(ranked) :
        i < j /\ ranked[i].symbol = a /\ ranked[j].symbol = b

C19_DiversificationScore ==
    \A k \in 1..Len(runs) :
        LET score == runs[k].result.diversification_score
        IN  /\ score = Rat(Len(Holdings(runs[k])), Len(runs[k].request.selectedAssets))
            /\ IsFinite(score)
            /\ 0 <= score.num
            /\ score.num <= score.den

C19_Witness ==
    \E k \in 1..Len(runs) :
        /\ Len(Holdings(runs[k])) = 2
        /\ Len(runs[k].request.selectedAssets) = 3
        /\ runs[k].result.diversification_score = Rat(2, 3)

RECURSIVE WeightedAverage(_, _, _)
\* The sum over the holdings of (investment / total) * field, field in
\* hundredths.
WeightedAverage(holdings, field, total) ==
    IF holdings = <<>> THEN Num(0)
    ELSE LET n == Len(holdings)
             h == holdings[n]
         IN  JsAdd(WeightedAverage(SubSeq(holdings, 1, n - 1), field, total),
                   JsMul(Rat(h[field], 100), JsDiv(Num(h.investment), Num(total))))

\* C20: in every result of a valid request with at least one holding,
\* expected_return and total_risk are the averages of the holdings'
\* expected_return and risk weighted by investment / total_value.
C20_WeightedAverages ==
    \A k \in 1..Len(runs) :
        (Valid(runs[k]) /\ Holdings(runs[k]) # <<>>) =>
            /\ runs[k].result.expected_return =
                  WeightedAverage(Holdings(runs[k]), "expected_return",
                                  runs[k].result.total_value)
            /\ runs[k].result.total_risk =
                  WeightedAverage(Holdings(runs[k]), "risk",
                                  runs[k].result.total_value)

RECURSIVE SumInvestments(_, _)
\* The sum of the investments of the first n iterations of a run's loop.
SumInvestments(trace, n) ==
    IF n = 0 THEN 0
    ELSE SumInvestments(trace, n - 1) + trace[n].investment

\* The loop of run r at its i-th iteration: every purchase so far is of a
\* whole number of shares >= 1 for investment = shares * price, within the
\* budget that remained when it was made, and the remaining budget is the
\* budget less the investments so far and is not negative, before and
\* after the iteration.
LoopInvariant(r, i) ==
    LET t == r.trace[i]
        after == t.remainingBefore - t.investment
    IN  /\ t.bought =>
              /\ t.shares \in Nat
              /\ t.shares >= 1
              /\ t.investment = t.shares * t.price
              /\ t.investment <= t.remainingBefore
        /\ t.remainingBefore = r.request.budget - SumInvestments(r.trace, i - 1)
        /\ after = r.request.budget - SumInvestments(r.trace, i)
        /\ t.remainingBefore >= 0
        /\ after >= 0

\* The holdings of run r are the purchases of its loop, in order.
HoldingsArePurchases(r) ==
    LET bought == LET Bought(t) == t.bought IN SelectSeq(r.trace, Bought)
    IN  /\ Len(Holdings(r)) = Len(bought)
        /\ \A i \in 1..Len(bought) :
              /\ Holdings(r)[i].symbol = bought[i].symbol
              /\ Holdings(r)[i].shares = bought[i].shares
              /\ Holdings(r)[i].investment = bought[i].investment

\* C21 as stated: at every step of the allocation loop of every request,
\* whatever its budget, each holding so far has a whole share count >= 1
\* and investment = shares * price within the budget remaining at its
\* purchase, remainingBudget = budget - (investments so far), and
\* remainingBudget is not negative.
C21_LoopInvariantAnyBudget ==
    \A k \in 1..Len(runs) :
        /\ HoldingsArePurchases(runs[k])
        /\ \A i \in 1..Len(runs[k].trace) : LoopInvariant(runs[k], i)

\* C21 amended: the same at every step of the loop of every request with a
\* budget >= 0.
C21_LoopInvariant ==
    \A k \in 1..Len(runs) :
        runs[k].request.budget >= 0 =>
            /\ HoldingsArePurchases(runs[k])
            /\ \A i \in 1..Len(runs[k].trace) : LoopInvariant(runs[k], i)

\* A run that bought twice and then met an asset dearer than what remained.
C21_Witness ==
    \E k \in 1..Len(runs) :
        LET tr == runs[k].trace
        IN  /\ Len(tr) = 3
            /\ tr[1].bought /\ tr[2].bought /\ ~tr[3].bought
            /\ tr[2].remainingBefore < runs[k].request.budget
            /\ tr[3].remainingBefore >= 0
            /\ tr[3].remainingBefore < tr[3].price

---------------------------------------------------------------------------
(* App of src/src/App-new.jsx: the selection handlers and optimizePortfolio, *)
(* which posts the request to the backend and awaits the response.          *)

\* The symbols offered as suggestions: the initial list and the fallback of
\* fetchAssets, which includes symbols already selected.
AppSymbols ==
    {"AAPL", "MSFT", "NVDA"}

\* Texts typed into the ticker input.
TypedTexts ==
    {"", " ", "aapl", "NVDA", " nvda"}

\* String.prototype.toUpperCase on the typed texts.
ToUpperCase(text) ==
    CASE text = "aapl" -> "AAPL"
      [] text = " nvda" -> " NVDA"
      [] OTHER -> text

\* String.prototype.trim on the upper-cased texts.
Trim(text) ==
    CASE text = " " -> ""
      [] text = " NVDA" -> "NVDA"
      [] OTHER -> text

\* Mutant: the symbol appended whether selected or not.
AddAlways(list, sym) ==
    Append(list, sym)

\* list.includes(sym) ? list : [...list, sym]
AddIfAbsent(list, sym) ==
    IF Includes(list, sym) THEN list ELSE Append(list, sym)

\* Mutant: only the first occurrence removed.
RemoveFirst(list, sym) ==
    IF ~Includes(list, sym) THEN list
    ELSE LET i == CHOOSE j \in 1..Len(list) :
                      list[j] = sym /\ \A h \in 1..(j - 1) : list[h] # sym
         IN  SubSeq(list, 1, i - 1) \o SubSeq(list, i + 1, Len(list))

\* list.filter(s => s !== sym)
Remove(list, sym) ==
    LET Keep(s) == s # sym IN SelectSeq(list, Keep)

\* A click on a suggestion: addStock(sym), lines 117-119,
\* if (!selected.includes(sym)) setSelected([...selected, sym]).
App_addStock ==
    /\ \E sym \in AppSymbols :
          App' = [App EXCEPT !.selected = AddIfAbsent(App.selected, sym)]
    /\ UNCHANGED <<fetches, portfolioLog>>
    /\ UNCHANGED exceptApp

\* A click on the x of a selected symbol: removeStock(sym), line 121.
App_removeStock ==
    /\ \E i \in 1..Len(App.selected) :
          App' = [App EXCEPT !.selected = Remove(App.selected, App.selected[i])]
    /\ UNCHANGED <<fetches, portfolioLog>>
    /\ UNCHANGED exceptApp

\* onChange of the ticker input: setQuery(e.target.value.toUpperCase()).
setQuery ==
    /\ \E text \in TypedTexts : App' = [App EXCEPT !.query = ToUpperCase(text)]
    /\ UNCHANGED <<fetches, portfolioLog>>
    /\ UNCHANGED exceptApp

\* Submitting the form, lines 123-129: a query that is not blank and not
\* selected is added as typed, upper-cased, and the input is cleared.
handleQuerySubmit ==
    /\ IF Trim(App.query) # "" /\ ~Includes(App.selected, ToUpperCase(App.query))
       THEN App' = [App EXCEPT
                       !.selected = AddIfAbsent(App.selected, ToUpperCase(App.query)),
                       !.query = ""]
       ELSE App' = App
    /\ UNCHANGED <<fetches, portfolioLog>>
    /\ UNCHANGED exceptApp

\* The values Math.random() takes in the model, in tenths: 0 and 0.5.
RandomValues ==
    {0, 5}

\* The portfolio the backend answers a request with: data of the backend's
\* making, here the first asset asked for, at full weight.
BackendPortfolio(request) ==
    [selected_assets |-> <<[symbol |-> request.selected[1], price |-> Num(100),
                            expected_return |-> Rat(12, 100), risk |-> Rat(20, 100),
                            weight |-> Num(1)]>>,
     total_value |-> Num(request.budget),
     expected_return |-> Rat(12, 100),
     total_risk |-> Rat(20, 100),
     allocation |-> {[key |-> request.selected[1], value |-> Num(request.budget)]}]

\* What the fetch of a request can come to: the promise rejects, the response
\* is not ok, the response is ok and its body does not parse, or it parses
\* to the backend's { success, data }.
Responses(request) ==
    {[kind |-> "rejected"], [kind |-> "not ok"], [kind |-> "ok, no json"],
     [kind |-> "ok", success |-> FALSE],
     [kind |-> "ok", success |-> TRUE, data |-> BackendPortfolio(request)]}

\* const mockOptimization = { ... }, lines 66-81 and 88-103, with every
\* Math.random() call returning u (in tenths).
mockOptimization(request, u) ==
    LET n == Len(request.selected)
    IN  [selected_assets |->
             [i \in 1..n |->
                 [symbol |-> request.selected[i],
                  price |-> Num(50 * u + 50),
                  expected_return |-> Rat(30 * u + 50, 1000),
                  risk |-> Rat(40 * u + 100, 1000),
                  weight |-> JsDiv(Num(1), Num(n))]],
         total_value |-> Num(request.budget),
         expected_return |-> Rat(20 * u + 80, 1000),
         total_risk |-> Rat(30 * u + 100, 1000),
         allocation |->
             {[key |-> request.selected[i],
               value |-> JsDiv(Num(request.budget), Num(n))] : i \in 1..n}]

\* What an optimizePortfolio call does once its fetch has settled (lines
\* 56-106): the values it passes to setOptimizedPortfolio and setResults and
\* the alert it raises, each <<>> when it makes no such call.
Settled(request, response, u) ==
    IF response.kind = "ok"
    THEN IF response.success
         THEN [portfolio |-> <<response.data>>,
               results |-> <<SymbolsOf(response.data.selected_assets)>>, alert |-> <<>>]
         ELSE [portfolio |-> <<>>, results |-> <<>>,
               alert |-> <<"Optimization failed">>]
    ELSE [portfolio |-> <<mockOptimization(request, u)>>,
          results |-> <<request.selected>>, alert |-> <<>>]

\* A click on the Optimize Portfolio button, which is disabled while
\* isOptimizing or with nothing selected: setIsOptimizing(true) and the fetch.
optimizePortfolio ==
    /\ ~(App.isOptimizing \/ Len(App.selected) = 0)
    /\ Len(fetches) + Len(portfolioLog) < MaxCalls
    /\ App' = [App EXCEPT !.isOptimizing = TRUE]
    /\ fetches' = Append(fetches, [selected |-> App.selected, budget |-> App.budget])
    /\ UNCHANGED portfolioLog
    /\ UNCHANGED exceptApp

\* The fetch of the earliest pending call settles and the call runs to its
\* end, the finally block included.
fetchSettled ==
    /\ fetches # <<>>
    /\ \E response \in Responses(Head(fetches)), u \in RandomValues :
          LET did == Settled(Head(fetches), response, u)
          IN  /\ App' = [App EXCEPT
                     !.optimizedPortfolio =
                         IF did.portfolio = <<>> THEN @ ELSE did.portfolio,
                     !.results =
                         IF did.results = <<>> THEN @ ELSE did.results[1],
                     !.isOptimizing = FALSE]
              /\ portfolioLog' = Append(portfolioLog,
                     [request |-> Head(fetches), response |-> response,
                      did |-> did, before |-> App.optimizedPortfolio])
    /\ fetches' = Tail(fetches)
    /\ UNCHANGED exceptApp

\* App with symbols removed from its selection between and during the
\* optimizations.
NextApp ==
    \/ optimizePortfolio
    \/ fetchSettled
    \/ App_removeStock

SpecApp ==
    InitMounted /\ [][NextApp]_vars

\* The backend is unavailable: the request threw or the response is not OK.
BackendUnavailable(response) ==
    response.kind \in {"rejected", "not ok"}

\* C22: an optimizePortfolio call whose request threw or got a response
\* that is not OK ends in an explicit error (the component's only one is an
\* alert) and passes nothing to setOptimizedPortfolio, so the stored
\* portfolio stays what it was.
C22_BackendUnavailableIsError ==
    \A k \in 1..Len(portfolioLog) :
        BackendUnavailable(portfolioLog[k].response) =>
            /\ portfolioLog[k].did.portfolio = <<>>
            /\ portfolioLog[k].did.alert # <<>>

---------------------------------------------------------------------------
(* useStore of src/Makefile (the store of ../store/useStore) with the       *)
(* OptimizeButton of src/src/components/OptimizeButton.tsx.                 *)

\* The tickers StockPicker and the suggestions offer, cut to two.
StoreSymbols ==
    {"AAPL", "TSLA"}

\* addStock(stock), lines 269-273, called by StockPicker and the suggestions.
useStore_addStock ==
    /\ \E stock \in StoreSymbols :
          useStore' = [useStore EXCEPT
                          !.selectedStocks = AddIfAbsent(@, stock)]
    /\ UNCHANGED <<optimizations, localOptimizing>>
    /\ UNCHANGED exceptStore

\* removeStock(stock), lines 274-276.
useStore_removeStock ==
    /\ \E stock \in StoreSymbols :
          useStore' = [useStore EXCEPT !.selectedStocks = Remove(@, stock)]
    /\ UNCHANGED <<optimizations, localOptimizing>>
    /\ UNCHANGED exceptStore

\* setBudget(budget), line 280: the store takes any number (BudgetControl
\* passes 1000 and more).
useStore_setBudget ==
    /\ \E b \in {0, 10000} : useStore' = [useStore EXCEPT !.budget = b]
    /\ UNCHANGED <<optimizations, localOptimizing>>
    /\ UNCHANGED exceptStore

\* Mutant: the button not disabled while an optimization is running.
isDisabledWhenNothingToDo(state) ==
    Len(state.selectedStocks) = 0 \/ state.budget <= 0

\* OptimizeButton line 21:
\* selectedStocks.length === 0 || budget <= 0 || optimizationState === 'optimizing'
isDisabled(state) ==
    \/ Len(state.selectedStocks) = 0
    \/ state.budget <= 0
    \/ state.optimizationState = "optimizing"

\* A click on the button: handleOptimize (lines 23-35) up to the first await
\* inside startOptimization (lines 314-326), which returns at once with
\* nothing selected or budget <= 0.
OptimizeButton_handleOptimize ==
    /\ ~isDisabled(useStore)
    /\ Len(optimizations) < MaxRuns
    /\ IF Len(useStore.selectedStocks) = 0 \/ useStore.budget <= 0
       THEN UNCHANGED <<useStore, optimizations, localOptimizing>>
       ELSE /\ useStore' = [useStore EXCEPT !.optimizationState = "optimizing",
                                            !.optimizationProgress = 0]
            /\ optimizations' = Append(optimizations,
                   [selectedStocks |-> useStore.selectedStocks,
                    budget |-> useStore.budget,
                    riskLevel |-> useStore.riskLevel, i |-> 0])
            /\ localOptimizing' = TRUE
    /\ UNCHANGED exceptStore

\* const results = [...], lines 331-356, with Math.random() returning u (in
\* tenths) at each call; an allocation's name is left out.
OptimizationResults(run, u) ==
    LET n == Len(run.selectedStocks)
        Allocations(first, second, rest, scale) ==
            [index \in 1..n |->
                LET base == IF index = 1 THEN first
                            ELSE IF index = 2 THEN second ELSE rest
                    weight == Rat(10 * base + scale * u, 10)
                IN  [symbol |-> run.selectedStocks[index], weight |-> weight,
                     value |-> JsDiv(JsMul(Num(run.budget), weight), Num(100))]]
    IN  << [score |-> 92, expectedReturn |-> Rat(125, 10),
            riskLevel |-> run.riskLevel, totalValue |-> run.budget,
            allocations |-> Allocations(40, 30, 20, 10)],
           [score |-> 88, expectedReturn |-> Rat(108, 10),
            riskLevel |-> run.riskLevel, totalValue |-> run.budget,
            allocations |-> Allocations(35, 35, 25, 5)] >>

\* The 150 ms timer of the k-th call in progress resolves (lines 323-326):
\* set({ optimizationProgress: i }), i += 10; after i = 100 the loop ends and
\* the call goes on, in the same turn, to set the results and 'complete'
\* (lines 358-362), upon which handleOptimize resets localOptimizing.
startOptimization_step ==
    \E k \in 1..Len(optimizations), u \in RandomValues :
        LET run == optimizations[k]
        IN  /\ IF run.i < 100
               THEN /\ useStore' = [useStore EXCEPT !.optimizationProgress = run.i]
                    /\ optimizations' = [optimizations EXCEPT ![k].i = run.i + 10]
                    /\ UNCHANGED localOptimizing
               ELSE /\ useStore' = [useStore EXCEPT
                           !.optimizationState = "complete",
                           !.optimizationResults = OptimizationResults(run, u),
                           !.optimizationProgress = 100]
                    /\ optimizations' = SubSeq(optimizations, 1, k - 1)
                                        \o SubSeq(optimizations, k + 1, Len(optimizations))
                    /\ localOptimizing' = FALSE
            /\ UNCHANGED exceptStore

NextStore ==
    \/ OptimizeButton_handleOptimize
    \/ startOptimization_step
    \/ useStore_addStock
    \/ useStore_removeStock
    \/ useStore_setBudget

SpecStore ==
    InitMounted /\ [][NextStore]_vars


\* C28: through clicks on OptimizeButton at most one startOptimization call
\* is in progress at a time; while it is, optimizationState is 'optimizing'
\* and its steps never lower optimizationProgress; and whenever
\* optimizationState is 'complete', optimizationProgress is 100 and
\* optimizationResults is not empty.
C28_OneRunAtATime ==
    /\ [](Len(optimizations) <= 1)
    /\ [](optimizations # <<>> => useStore.optimizationState = "optimizing")
    /\ [][(optimizations # <<>> /\ optimizations' # <<>>) =>
              useStore'.optimizationProgress >= useStore.optimizationProgress]_vars
    /\ [](useStore.optimizationState = "complete" =>
              /\ useStore.optimizationProgress = 100
              /\ useStore.optimizationResults # <<>>)

\* A second run under way, past its first steps, after a first one completed,
\* with the selection emptied since the click.
C28_Witness ==
    /\ Len(optimizations) = 1
    /\ optimizations[1].i = 50
    /\ useStore.optimizationProgress = 40
    /\ useStore.optimizationResults # <<>>
    /\ useStore.selectedStocks = <<>>


\* The three selections edited in any order: the Optimize page's cards,
\* App's suggestions, x buttons and ticker form, and the store's
\* addStock and removeStock.
NextSelections ==
    \/ toggleAssetSelection
    \/ App_addStock
    \/ App_removeStock
    \/ setQuery
    \/ handleQuerySubmit
    \/ useStore_addStock
    \/ useStore_removeStock

SpecSelections ==
    InitMounted /\ [][NextSelections]_vars

NoDuplicates(list) ==
    \A i, j \in 1..Len(list) : i # j => list[i] # list[j]

\* What one operation makes of a selection: nothing (a symbol added that
\* was selected), the list with a symbol that was not selected at its end,
\* or the list without any occurrence of one of its symbols.
SelectionStep(old, new) ==
    \/ new = old
    \/ /\ Len(new) = Len(old) + 1
       /\ new = Append(old, new[Len(new)])
       /\ ~Includes(old, new[Len(new)])
    \/ \E i \in 1..Len(old) :
          /\ ~Includes(new, old[i])
          /\ new = LET Other(s) == s # old[i] IN SelectSeq(old, Other)

\* C23: each of the three selections (Optimize's selectedAssets, App's
\* selected, useStore's selectedStocks) never holds a symbol twice, and every
\* add, remove or toggle leaves it unchanged (a symbol added that was
\* selected), appends a symbol that was not selected, or removes every
\* occurrence of a symbol.
C23_SelectionIsASet ==
    /\ [](/\ NoDuplicates(selectedAssets)
          /\ NoDuplicates(App.selected)
          /\ NoDuplicates(useStore.selectedStocks))
    /\ [][/\ SelectionStep(selectedAssets, selectedAssets')
          /\ SelectionStep(App.selected, App'.selected)
          /\ SelectionStep(useStore.selectedStocks, useStore'.selectedStocks)]_vars

\* Each selection after removals and additions: its first symbol removed
\* and added again behind a later one.
C23_Witness ==
    /\ selectedAssets = <<"BND", "TSLA">>
    /\ App.selected = <<"MSFT", " NVDA", "AAPL">>
    /\ useStore.selectedStocks = <<"TSLA", "AAPL">>

---------------------------------------------------------------------------
(* useWebSocket of src/src/hooks/use-websocket.ts.  Every WebSocket that   *)
(* connect creates keeps the handlers connect gave it, whatever becomes of *)
(* wsRef.  The url is one that new WebSocket accepts.                      *)

\* The values of config.maxReconnectAttempts in the model (the default is 5).
MaxReconnectAttemptsValues ==
    {1, 2}

\* connect(), lines 21-66: wsRef.current = new WebSocket(wsUrl), with its
\* handlers; who records the caller.
Connect(hook, who) ==
    /\ Len(sockets) < MaxSockets
    /\ sockets' = Append(sockets, [readyState |-> "CONNECTING", by |-> who])
    /\ useWebSocket' = [hook EXCEPT !.wsRef = Len(sockets) + 1]

\* The open event of socket s, lines 27-32.
onopen ==
    /\ \E s \in 1..Len(sockets) :
          /\ sockets[s].readyState = "CONNECTING"
          /\ sockets' = [sockets EXCEPT ![s].readyState = "OPEN"]
    /\ useWebSocket' = [useWebSocket EXCEPT !.isConnected = TRUE, !.error = <<>>,
                                            !.reconnectAttemptsRef = 0]
    /\ UNCHANGED reconnectTimers
    /\ UNCHANGED exceptWs

\* The error event of socket s, lines 58-61.
onerror ==
    /\ \E s \in 1..Len(sockets) : sockets[s].readyState \in {"CONNECTING", "OPEN"}
    /\ useWebSocket' = [useWebSocket EXCEPT !.error = <<"WebSocket connection error">>]
    /\ UNCHANGED <<sockets, reconnectTimers>>
    /\ UNCHANGED exceptWs

\* Mutant: a reconnect scheduled at every close, whatever the count.
MayReconnectAlways(hook) ==
    TRUE

\* if (reconnectAttemptsRef.current < maxReconnectAttempts), line 47
MayReconnect(hook) ==
    hook.reconnectAttemptsRef < hook.maxReconnectAttempts

\* The close event of socket s, lines 43-56: the connection failed, the
\* server or the network closed it, or close() was called on it.
onclose ==
    /\ \E s \in 1..Len(sockets) :
          /\ sockets[s].readyState # "CLOSED"
          /\ sockets' = [sockets EXCEPT ![s].readyState = "CLOSED"]
          /\ IF MayReconnect(useWebSocket)
             THEN /\ useWebSocket' = [useWebSocket EXCEPT
                         !.isConnected = FALSE,
                         !.reconnectAttemptsRef = @ + 1,
                         !.reconnectTimeoutRef = s]
                  /\ reconnectTimers' = reconnectTimers \cup {s}
             ELSE /\ useWebSocket' = [useWebSocket EXCEPT
                         !.isConnected = FALSE,
                         !.error = <<"Max reconnection attempts reached">>]
                  /\ UNCHANGED reconnectTimers
    /\ UNCHANGED exceptWs

\* A reconnect timeout fires, lines 49-52: connect().
reconnectTimeout ==
    /\ \E t \in reconnectTimers :
          /\ reconnectTimers' = reconnectTimers \ {t}
          /\ Connect(useWebSocket, "timeout")
    /\ UNCHANGED exceptWs

\* The hook's user calls reconnect(), which is connect (line 105).
reconnect ==
    /\ useWebSocket.mounted
    /\ Connect(useWebSocket, "reconnect")
    /\ UNCHANGED reconnectTimers
    /\ UNCHANGED exceptWs

\* disconnect(), lines 68-77: clearTimeout of the timeout last set, close()
\* on the current socket, wsRef.current = null, setIsConnected(false).
Disconnect(hook) ==
    /\ reconnectTimers' = reconnectTimers \ {hook.reconnectTimeoutRef}
    /\ sockets' = [s \in 1..Len(sockets) |->
                      IF s = hook.wsRef /\ sockets[s].readyState # "CLOSED"
                      THEN [sockets[s] EXCEPT !.readyState = "CLOSING"]
                      ELSE sockets[s]]
    /\ useWebSocket' = [hook EXCEPT !.wsRef = 0, !.isConnected = FALSE]

\* The hook's user calls disconnect().
disconnect ==
    /\ useWebSocket.mounted
    /\ Disconnect(useWebSocket)
    /\ UNCHANGED exceptWs

\* The component unmounts: the effect's cleanup (lines 89-92) calls
\* disconnect().
unmount ==
    /\ useWebSocket.mounted
    /\ Disconnect([useWebSocket EXCEPT !.mounted = FALSE])
    /\ UNCHANGED exceptWs

NextWs ==
    \/ onopen
    \/ onerror
    \/ onclose
    \/ reconnectTimeout
    \/ reconnect
    \/ disconnect
    \/ unmount

InitWs ==
    /\ OptimizeInit
    /\ AppInit
    /\ StoreInit
    /\ ToastsInit
    /\ AuthInit
    /\ TradingInit
    /\ \E m \in MaxReconnectAttemptsValues : WsInit(m)

SpecWs ==
    InitWs /\ [][NextWs]_vars


\* A socket was created in the step.
SocketCreated ==
    Len(sockets') > Len(sockets)

\* C24: after disconnect() has run (called by the hook's user or by the
\* effect's cleanup) the hook opens no WebSocket unless reconnect() is
\* called.  wsRef.current is null from a disconnect() until the next call of
\* connect, so the claim is that a socket created while it is null is
\* created by reconnect().
C24_NoReconnectAfterDisconnect ==
    [][(SocketCreated /\ useWebSocket.wsRef = 0) =>
           sockets'[Len(sockets')].by = "reconnect"]_vars

\* Socket s got its close event in the step.
Closed(s) ==
    /\ s \in 1..Len(sockets)
    /\ sockets[s].readyState # "CLOSED"
    /\ sockets'[s].readyState = "CLOSED"

\* A reconnect timeout was set in the step.
TimeoutSet ==
    ~(reconnectTimers' \subseteq reconnectTimers)

\* C25: reconnectAttemptsRef never exceeds maxReconnectAttempts; it changes
\* only by being reset to 0 at an open event or by being raised by one when
\* a close event sets a reconnect timeout, which every setting of a timeout
\* does (so at most maxReconnectAttempts timeouts are set between two
\* opens); and a close event with the count at the maximum sets the error
\* 'Max reconnection attempts reached' and sets no timeout.
C25_ReconnectAttemptsBounded ==
    /\ [](useWebSocket.reconnectAttemptsRef <= useWebSocket.maxReconnectAttempts)
    /\ [][LET n == useWebSocket.reconnectAttemptsRef
              max == useWebSocket.maxReconnectAttempts
          IN  /\ useWebSocket'.reconnectAttemptsRef # n =>
                    \/ /\ useWebSocket'.reconnectAttemptsRef = 0
                       /\ \E s \in 1..Len(sockets) :
                             /\ sockets[s].readyState = "CONNECTING"
                             /\ sockets'[s].readyState = "OPEN"
                    \/ /\ useWebSocket'.reconnectAttemptsRef = n + 1
                       /\ TimeoutSet
                       /\ \E s \in 1..Len(sockets) : Closed(s)
              /\ TimeoutSet =>
                    /\ n < max
                    /\ useWebSocket'.reconnectAttemptsRef = n + 1
              /\ ((\E s \in 1..Len(sockets) : Closed(s)) /\ n = max) =>
                    /\ useWebSocket'.error = <<"Max reconnection attempts reached">>
                    /\ ~TimeoutSet
                    /\ ~SocketCreated]_vars

\* With maxReconnectAttempts = 2: two reconnections made by timeouts have
\* failed in turn and the third close has set the error.
C25_Witness ==
    /\ useWebSocket.maxReconnectAttempts = 2
    /\ useWebSocket.reconnectAttemptsRef = 2
    /\ Len(sockets) = 3
    /\ sockets[2].by = "timeout" /\ sockets[3].by = "timeout"
    /\ \A s \in 1..3 : sockets[s].readyState = "CLOSED"
    /\ reconnectTimers = {}
    /\ useWebSocket.error = <<"Max reconnection attempts reached">>

---------------------------------------------------------------------------
(* useToastStore of src/src/stores/toast-store.ts (lines 23-51) and the    *)
(* Toast component of src/unnamed/part_007 (lines 214-300), one per toast  *)
(* of the store, mounted while the toast is in it.  The timeouts fire in   *)
(* any order.  clearToasts has no caller and is left out.                  *)

\* The ids generateId returns: generateId (../lib/utils) is taken to return
\* an id it has not returned before, here 1, 2, ...
ToastIds ==
    1..MaxToasts

\* What is passed to addToast: a toast without duration, or with duration 0.
ToastArguments ==
    {[message |-> "m", type |-> "info"],
     [message |-> "m", type |-> "info", duration |-> 0]}

\* { id, duration: 5000, ...toast }, lines 28-32
newToast(id, toast) ==
    [id |-> id, message |-> toast.message, type |-> toast.type,
     duration |-> IF "duration" \in DOMAIN toast THEN toast.duration ELSE 5000]

\* Mutant: a timeout whatever the duration.
HasTimeoutAlways(duration) ==
    TRUE

\* duration && duration > 0, line 39 and part_007 line 225
HasTimeout(duration) ==
    duration # 0 /\ duration > 0

\* The Toast component of a toast just rendered, after its effect (lines
\* 222-242): visible, not paused, its timeout started if the toast has one.
Mounted(toast) ==
    [isVisible |-> TRUE, isPaused |-> FALSE, timeout |-> HasTimeout(toast.duration)]

\* f with x mapped to y.
With(f, x, y) ==
    [z \in DOMAIN f \cup {x} |-> IF z = x THEN y ELSE f[z]]

\* f without x.
Without(f, x) ==
    [z \in DOMAIN f \ {x} |-> f[z]]

InStore(id) ==
    \E i \in 1..Len(useToastStore.toasts) : useToastStore.toasts[i].id = id

\* addToast(toast), lines 26-44, and the render of the new Toast.
addToast ==
    /\ generated < MaxToasts
    /\ \E toast \in ToastArguments :
          LET id == generated + 1
              new == newToast(id, toast)
          IN  /\ generated' = id
              /\ useToastStore' = [useToastStore EXCEPT !.toasts = Append(@, new)]
              /\ storeTimeouts' = IF HasTimeout(new.duration)
                                  THEN storeTimeouts \cup {id} ELSE storeTimeouts
              /\ ToastComponents' = With(ToastComponents, id, Mounted(new))
    /\ UNCHANGED closeTimeouts
    /\ UNCHANGED exceptToasts

\* removeToast(id), lines 46-48, and the unmounting of the toast's
\* component, whose effect cleanup clears its timeout (lines 236-240).
RemoveToast(id) ==
    /\ useToastStore' = [useToastStore EXCEPT
           !.toasts = LET Other(toast) == toast.id # id IN SelectSeq(@, Other)]
    /\ ToastComponents' = Without(ToastComponents, id)

\* The timeout addToast set for id fires (lines 40-42).
storeTimeout(id) ==
    /\ id \in storeTimeouts
    /\ storeTimeouts' = storeTimeouts \ {id}
    /\ RemoveToast(id)
    /\ UNCHANGED <<generated, closeTimeouts>>
    /\ UNCHANGED exceptToasts

\* handleMouseEnter, lines 249-254, and the effect run that isPaused
\* brings about: the timeout is cleared and none is started.
handleMouseEnter ==
    /\ \E id \in DOMAIN ToastComponents :
          ToastComponents' = [ToastComponents EXCEPT ![id].isPaused = TRUE,
                                                     ![id].timeout = FALSE]
    /\ UNCHANGED <<useToastStore, generated, storeTimeouts, closeTimeouts>>
    /\ UNCHANGED exceptToasts

\* handleMouseLeave, lines 256-258, and the effect run if isPaused changed:
\* the timeout is started again.
handleMouseLeave ==
    /\ \E id \in DOMAIN ToastComponents :
          LET duration == (CHOOSE toast \in {useToastStore.toasts[i] :
                                      i \in 1..Len(useToastStore.toasts)} :
                               toast.id = id).duration
          IN  ToastComponents' = [ToastComponents EXCEPT
                  ![id].isPaused = FALSE,
                  ![id].timeout = IF ToastComponents[id].isPaused
                                  THEN HasTimeout(duration) ELSE @]
    /\ UNCHANGED <<useToastStore, generated, storeTimeouts, closeTimeouts>>
    /\ UNCHANGED exceptToasts

\* handleClose, lines 244-247, called by by.
HandleClose(id, by) ==
    /\ closeTimeouts' = closeTimeouts \cup {[id |-> id, by |-> by]}
    /\ UNCHANGED <<useToastStore, generated, storeTimeouts>>

\* The component's timeout fires (lines 227-229): handleClose().
componentTimeout ==
    /\ \E id \in DOMAIN ToastComponents :
          /\ ToastComponents[id].timeout
          /\ ToastComponents' = [ToastComponents EXCEPT ![id].timeout = FALSE,
                                                        ![id].isVisible = FALSE]
          /\ HandleClose(id, "timeout")
    /\ UNCHANGED exceptToasts

\* A click on the toast's X button (line 293): handleClose().
clickClose ==
    /\ \E id \in DOMAIN ToastComponents :
          /\ ToastComponents' = [ToastComponents EXCEPT ![id].isVisible = FALSE]
          /\ HandleClose(id, "click")
    /\ UNCHANGED exceptToasts

\* A 300 ms timeout of handleClose fires (line 246): removeToast(toast.id).
closeTimeout ==
    /\ \E t \in closeTimeouts :
          /\ closeTimeouts' = closeTimeouts \ {t}
          /\ RemoveToast(t.id)
    /\ UNCHANGED <<generated, storeTimeouts>>
    /\ UNCHANGED exceptToasts

NextToasts ==
    \/ addToast
    \/ \E id \in ToastIds : storeTimeout(id)
    \/ handleMouseEnter
    \/ handleMouseLeave
    \/ componentTimeout
    \/ clickClose
    \/ closeTimeout

SpecToasts ==
    InitMounted /\ [][NextToasts]_vars

\* The same with every timeout that addToast sets firing in the end.
SpecToastsFair ==
    SpecToasts /\ \A id \in ToastIds : WF_vars(storeTimeout(id))


\* The toast id leaves the store in the step through a timeout that no
\* click started: the one addToast set, or the 300 ms one of a handleClose
\* that the component's own timeout called.
AutoRemoved(id) ==
    /\ InStore(id)
    /\ ~InStore(id)'
    /\ \/ id \in storeTimeouts \ storeTimeouts'
       \/ [id |-> id, by |-> "timeout"] \in closeTimeouts \ closeTimeouts'

\* C26: a toast whose component is paused (handleMouseEnter has run and
\* handleMouseLeave has not) is not removed from the store by a timeout.
C26_PausedToastStays ==
    [][\A id \in ToastIds :
          (id \in DOMAIN ToastComponents /\ ToastComponents[id].isPaused) =>
              ~AutoRemoved(id)]_vars

DurationOf(id) ==
    (CHOOSE toast \in {useToastStore.toasts[i] : i \in 1..Len(useToastStore.toasts)} :
         toast.id = id).duration

\* C27: every toast in the store with duration > 0 is removed in the end;
\* a step that removes from the store removes the one toast of one id and
\* leaves the others in their order; and a toast of duration 0 is not
\* removed by a timeout that no click started.
C27_ToastsExpire ==
    /\ \A id \in ToastIds :
          (InStore(id) /\ DurationOf(id) > 0) ~> ~InStore(id)
    /\ [][Len(useToastStore'.toasts) < Len(useToastStore.toasts) =>
              \E i \in 1..Len(useToastStore.toasts) :
                  useToastStore'.toasts =
                      SubSeq(useToastStore.toasts, 1, i - 1)
                      \o SubSeq(useToastStore.toasts, i + 1, Len(useToastStore.toasts))]_vars
    /\ [][\A id \in ToastIds :
              (InStore(id) /\ DurationOf(id) = 0) => ~AutoRemoved(id)]_vars

\* The first of two toasts, of duration 5000, removed by its timeout, the
\* second, of duration 0, left in the store with a click's handleClose
\* pending.
C27_Witness ==
    /\ generated = 2
    /\ ~InStore(1)
    /\ InStore(2)
    /\ DurationOf(2) = 0
    /\ storeTimeouts = {}
    /\ closeTimeouts = {[id |-> 2, by |-> "click"]}

---------------------------------------------------------------------------
(* useAuthStore of src/src/stores/toast-store.ts (lines 88-198, the store  *)
(* of ../../stores/auth-store) and ProtectedRoute of src/unnamed/part_005. *)
(* A value that may be null is <<>> for null and <<v>> for v.              *)

\* The users the backend answers with and setUser is given: values of type
\* User, each with its roles.
Users ==
    {[email |-> "a@mk.to", roles |-> {"trader"}],
     [email |-> "a@mk.to", roles |-> {"viewer"}]}

\* const mockUser, lines 125-130
mockUser(credentials) ==
    [email |-> credentials.email, roles |-> {"trader", "admin"}]

\* What the fetch of a login or a refresh can come to: the promise rejects,
\* the response is not ok, or it is ok with a body of type AuthToken.
AuthResponses ==
    {[kind |-> "rejected"], [kind |-> "not ok"]}
    \cup {[kind |-> "ok", user |-> u, token |-> "jwt", refreshToken |-> "refresh"] :
              u \in Users}

\* login(credentials) up to its await, lines 98-107.
login ==
    /\ Len(authRequests) < MaxRequests
    /\ useAuthStore' = [useAuthStore EXCEPT !.isLoading = TRUE, !.error = Null]
    /\ authRequests' = Append(authRequests,
           [call |-> "login", credentials |-> [email |-> "a@mk.to"]])
    /\ UNCHANGED exceptAuth

\* Mutant: logout that leaves isAuthenticated as it is.
LoggedOutButFlag(state) ==
    [state EXCEPT !.user = Null, !.token = Null, !.refreshToken = Null,
                  !.error = Null]

\* The state after logout's set, lines 145-151.
LoggedOut(state) ==
    [state EXCEPT !.user = Null, !.token = Null, !.refreshToken = Null,
                  !.isAuthenticated = FALSE, !.error = Null]

\* logout(), lines 143-152.
logout ==
    /\ useAuthStore' = LoggedOut(useAuthStore)
    /\ UNCHANGED authRequests
    /\ UNCHANGED exceptAuth

\* refreshAuth() up to its await, lines 154-164: nothing without a refreshToken.
refreshAuth ==
    /\ Len(authRequests) < MaxRequests
    /\ IF useAuthStore.refreshToken = Null
       THEN UNCHANGED authRequests
       ELSE authRequests' = Append(authRequests,
                [call |-> "refreshAuth", refreshToken |-> useAuthStore.refreshToken[1]])
    /\ UNCHANGED useAuthStore
    /\ UNCHANGED exceptAuth

\* The fetch of the k-th pending call settles and the call runs to its end:
\* login from line 109 on, with its catch (lines 123-140), refreshAuth from
\* line 166 on, with its catch (lines 178-181).
authSettled ==
    /\ \E k \in 1..Len(authRequests), response \in AuthResponses :
          LET request == authRequests[k]
          IN  /\ authRequests' = SubSeq(authRequests, 1, k - 1)
                                 \o SubSeq(authRequests, k + 1, Len(authRequests))
              /\ useAuthStore' =
                    IF request.call = "login"
                    THEN IF response.kind = "ok"
                         THEN [useAuthStore EXCEPT
                                  !.user = <<response.user>>,
                                  !.token = <<response.token>>,
                                  !.refreshToken = <<response.refreshToken>>,
                                  !.isAuthenticated = TRUE,
                                  !.isLoading = FALSE, !.error = Null]
                         ELSE [useAuthStore EXCEPT
                                  !.user = <<mockUser(request.credentials)>>,
                                  !.token = <<"mock-jwt-token">>,
                                  !.refreshToken = <<"mock-refresh-token">>,
                                  !.isAuthenticated = TRUE,
                                  !.isLoading = FALSE, !.error = Null]
                    ELSE IF response.kind = "ok"
                         THEN [useAuthStore EXCEPT
                                  !.user = <<response.user>>,
                                  !.token = <<response.token>>,
                                  !.refreshToken = <<response.refreshToken>>,
                                  !.isAuthenticated = TRUE]
                         ELSE LoggedOut(useAuthStore)
    /\ UNCHANGED exceptAuth

\* setUser(user), line 184.
setUser ==
    /\ \E user \in Users : useAuthStore' = [useAuthStore EXCEPT !.user = <<user>>]
    /\ UNCHANGED authRequests
    /\ UNCHANGED exceptAuth

\* setError(error), line 185, and clearError(), line 186, which is setError(null).
setError ==
    /\ \E error \in {Null, <<"Login failed">>} :
          useAuthStore' = [useAuthStore EXCEPT !.error = error]
    /\ UNCHANGED authRequests
    /\ UNCHANGED exceptAuth

\* What ProtectedRoute renders (part_005 lines 11-40) from the store's state.
ProtectedRoute(state, requiredRole) ==
    IF ~state.isAuthenticated THEN "Navigate to /login"
    ELSE IF requiredRole # "" /\ state.user # Null
            /\ requiredRole \notin state.user[1].roles
         THEN "Access Denied"
         ELSE "children"

NextAuth ==
    \/ login
    \/ logout
    \/ refreshAuth
    \/ authSettled
    \/ setUser
    \/ setError

SpecAuth ==
    InitMounted /\ [][NextAuth]_vars

\* The roles a route requires: the default and another.
RequiredRoles ==
    {"trader", "admin"}

\* C29: in every state the auth store's actions lead to, isAuthenticated
\* implies that token and user are not null; ProtectedRoute renders its
\* children only if isAuthenticated and the user's roles include the
\* required role; and a step that clears the token, as logout does, leads
\* to a state in which ProtectedRoute redirects to /login.
C29_AuthenticatedHasUser ==
    /\ [](useAuthStore.isAuthenticated =>
              useAuthStore.token # Null /\ useAuthStore.user # Null)
    /\ [](\A role \in RequiredRoles :
              ProtectedRoute(useAuthStore, role) = "children" =>
                  /\ useAuthStore.isAuthenticated
                  /\ useAuthStore.user # Null
                  /\ role \in useAuthStore.user[1].roles)
    /\ [][(useAuthStore.token # Null /\ useAuthStore'.token = Null) =>
              \A role \in RequiredRoles :
                  ProtectedRoute(useAuthStore', role) = "Navigate to /login"]_vars

\* A refreshAuth that was pending at a logout has authenticated a user
\* without the admin role, while a login is pending.
C29_Witness ==
    /\ useAuthStore.isAuthenticated
    /\ useAuthStore.token = <<"jwt">>
    /\ useAuthStore.user # Null
    /\ useAuthStore.user[1].roles = {"trader"}
    /\ ProtectedRoute(useAuthStore, "admin") = "Access Denied"
    /\ ProtectedRoute(useAuthStore, "trader") = "children"
    /\ useAuthStore.isLoading
    /\ Len(authRequests) = 1


----------------------------------------------------------------------------
(* useTradingStore of src/src/stores/toast-store.ts, lines 235-339 *)

\* The orders submitted: an OrderRequest with its price, <<>> where the order
\* has none.
Orders ==
    { [symbol |-> "AAPL", side |-> "buy", quantity |-> 10, orderType |-> "limit",
       price |-> <<150>>],
      [symbol |-> "TSLA", side |-> "sell", quantity |-> 5, orderType |-> "market",
       price |-> <<>>] }

\* The ids the backend gives to orders and positions.
OrderIds == {"ord_1", "ord_2"}

\* A position as the store holds it; the timestamp is left out.
Position(id, symbol, quantity, price, side, status) ==
    [id |-> id, symbol |-> symbol, quantity |-> quantity, avgPrice |-> price,
     currentPrice |-> price, pnl |-> 0, pnlPercent |-> 0, side |-> side,
     status |-> status]

\* The lists setPositions is called with: positions the backend reports.
PositionLists ==
    { <<>>,
      <<Position("ord_1", "MSFT", 3, 300, "long", "open")>>,
      <<Position("ord_2", "MSFT", 3, 300, "long", "open"),
        Position("ord_1", "AAPL", 10, 150, "long", "open")>> }

\* What the fetch of submitOrder comes to: it rejects, it answers with a status
\* that is not ok, or it answers ok with an OrderResponse.
OrderResponses ==
    {[kind |-> "rejected"], [kind |-> "not ok"]}
    \cup { [kind |-> "ok", orderId |-> id, status |-> status] :
             id \in OrderIds, status \in {"pending", "filled"} }

\* setPositions(positions), line 246.
setPositions ==
    /\ \E positions \in PositionLists :
         useTradingStore' = [useTradingStore EXCEPT !.positions = positions]
    /\ UNCHANGED <<orderRequests, lastOrder>>
    /\ UNCHANGED exceptTrading

\* state.positions.map(pos => pos.id === updatedPosition.id ? updatedPosition : pos),
\* lines 249-251.
Updated(positions, updatedPosition) ==
    [i \in 1..Len(positions) |->
        IF positions[i].id = updatedPosition.id THEN updatedPosition
        ELSE positions[i]]

\* updatePosition(updatedPosition), lines 248-252, called with a position of
\* the store whose status has changed, as closePosition does (line 338).
updatePosition ==
    /\ \E i \in 1..Len(useTradingStore.positions) :
         useTradingStore' =
             [useTradingStore EXCEPT !.positions =
                 Updated(@, [useTradingStore.positions[i] EXCEPT !.status = "closing"])]
    /\ UNCHANGED <<orderRequests, lastOrder>>
    /\ UNCHANGED exceptTrading

\* submitOrder(order) up to its await, lines 275-286.
submitOrder ==
    /\ Len(orderRequests) < MaxRequests
    /\ \E order \in Orders : orderRequests' = Append(orderRequests, order)
    /\ UNCHANGED <<useTradingStore, lastOrder>>
    /\ UNCHANGED exceptTrading

\* order.price || 0, lines 297-298.
PriceOrZero(order) ==
    IF order.price = <<>> THEN 0 ELSE order.price[1]

\* optimisticPosition, lines 293-304.
optimisticPosition(order, result) ==
    Position(result.orderId, order.symbol,
             IF order.side = "buy" THEN order.quantity ELSE -order.quantity,
             PriceOrZero(order),
             IF order.side = "buy" THEN "long" ELSE "short", "open")

\* The fetch of the k-th pending submitOrder settles and the call runs to its
\* return, lines 288-320: a rejected fetch and a response that is not ok end
\* in the catch, which returns the mock response (lines 312-318).
orderSettled ==
    /\ \E k \in 1..Len(orderRequests), response \in OrderResponses :
         LET order == orderRequests[k]
             before == useTradingStore.positions
             after ==
                 IF response.kind = "ok" /\ response.status = "pending"
                 THEN Updated(before, optimisticPosition(order, response))
                 ELSE before
         IN  /\ useTradingStore' = [useTradingStore EXCEPT !.positions = after]
             /\ orderRequests' = [j \in 1..(Len(orderRequests) - 1) |->
                                     IF j < k THEN orderRequests[j]
                                     ELSE orderRequests[j + 1]]
             /\ lastOrder' = <<[order |-> order, response |-> response,
                                before |-> before, after |-> after]>>
    /\ UNCHANGED exceptTrading

NextTrading ==
    \/ setPositions
    \/ updatePosition
    \/ submitOrder
    \/ orderSettled

SpecTrading ==
    InitMounted /\ [][NextTrading]_vars

\* The positions hold one with the id of the order, and with the order's
\* symbol and signed quantity.
HasOptimisticPosition(positions, order, orderId) ==
    \E i \in 1..Len(positions) :
        /\ positions[i].id = orderId
        /\ positions[i].symbol = order.symbol
        /\ positions[i].quantity =
               IF order.side = "buy" THEN order.quantity ELSE -order.quantity

\* C30: when submitOrder received a backend response with status 'pending',
\* positions afterwards contain a position whose id is the returned orderId,
\* with the order's symbol and signed quantity; in every other case
\* submitOrder left positions unchanged.
C30_PendingOrderAddsPosition ==
    lastOrder # <<>> =>
        LET call == lastOrder[1]
        IN  IF call.response.kind = "ok" /\ call.response.status = "pending"
            THEN HasOptimisticPosition(call.after, call.order, call.response.orderId)
            ELSE call.after = call.before

===========================================================================
